---- MODULE Spec2Model ----
(***************************************************************************)
(* xCLOUD: a key-value store over HTTP with caller-named tables.           *)
(*                                                                         *)
(* database.rs  Database: six methods, each formats one SQL statement with *)
(*              the sanitized table name and executes it on the pool;      *)
(*              set_data, update_data and get_data call init_table first.  *)
(* utils.rs     Utils::sanitize: character filter on table names.          *)
(* server.rs    Server: five handlers, each locks the one                  *)
(*              tokio::sync::Mutex<Database>, makes one Database call and  *)
(*              turns the Result into an HTTP answer.                      *)
(*                                                                         *)
(* Text is modelled as a sequence of pieces: a table name is a sequence of *)
(* one-character strings, a statement is the pieces of its format string   *)
(* with the name's characters in place of "{}".  The relational backend    *)
(* behind the pool is the environment: it reads the statement text, takes  *)
(* the quoted identifier out of it and runs the statement on its tables.   *)
(***************************************************************************)
EXTENDS Integers, Sequences, FiniteSets, TLC

(***************************************************************************)
(* Bounds.                                                                 *)
(***************************************************************************)
\* number of requests that can be in flight at the same time
NReq == 2
\* longest table name of the sanitizer's specification
MaxLen == 3

Reqs == 1 .. NReq

(***************************************************************************)
(* Characters and names.                                                   *)
(***************************************************************************)
\* characters for which char::is_alphanumeric is true
AlphaNumeric == {"a", "b", "c", "7"}
\* characters for which it is false; the quote is the one that delimits the
\* identifier in every statement
Quote == "\""
OtherChars == {"_", ";", " ", Quote}
Alphabet == AlphaNumeric \cup OtherChars

\* a filter that lets whitespace through
KeepCharOrSpace(c) == c \in AlphaNumeric \/ c = "_" \/ c = " "

\* utils.rs:17  |c| c.is_alphanumeric() || *c == '_'
KeepChar(c) == c \in AlphaNumeric \/ c = "_"

\* sanitize that takes out only the first character it should not keep
SanitizeFirstOnly(str) ==
    LET bad == {i \in 1 .. Len(str) : ~KeepChar(str[i])}
    IN  IF bad = {} THEN str
        ELSE LET i == CHOOSE j \in bad : \A h \in bad : j <= h
             IN  SubSeq(str, 1, i - 1) \o SubSeq(str, i + 1, Len(str))

\* utils.rs:15-19  str.chars().filter(..).collect()
Sanitize(str) == SelectSeq(str, KeepChar)

(***************************************************************************)
(* Generated statements (database.rs).  A statement is its text and its    *)
(* bound parameters, ?n being binds[n].                                    *)
(***************************************************************************)
CreateHead == "CREATE TABLE IF NOT EXISTS "
CreateTail == " (key TEXT PRIMARY KEY, value TEXT NOT NULL)"
InsertHead == "INSERT OR REPLACE INTO "
InsertTail == " (key, value) VALUES (?1, ?2)"
UpdateHead == "UPDATE "
UpdateTail == " SET value = ?1 WHERE key = ?2"
SelectHead == "SELECT value FROM "
SelectTail == " WHERE key = ?1"
DeleteHead == "DELETE FROM "
DeleteTail == " WHERE key = ?1"
DropHead == "DROP TABLE IF EXISTS "

\* format!("<head>\"{}\"<tail>", name)
Format(head, name, tail) == <<head, Quote>> \o name \o <<Quote>> \o tail

\* database.rs:31-38
InitTableStmt(table) ==
    [text |-> Format(CreateHead, Sanitize(table), <<CreateTail>>), binds |-> <<>>]

\* set_data with its parameters bound in the wrong order
SetDataStmtSwapped(table, key, value) ==
    [text |-> Format(InsertHead, Sanitize(table), <<InsertTail>>),
     binds |-> <<value, key>>]

\* database.rs:56-62
SetDataStmt(table, key, value) ==
    [text |-> Format(InsertHead, Sanitize(table), <<InsertTail>>),
     binds |-> <<key, value>>]

\* update_data that inserts when no row matches
UpdateDataStmtUpsert(table, key, value) ==
    [text |-> Format(InsertHead, Sanitize(table), <<InsertTail>>),
     binds |-> <<key, value>>]

\* database.rs:85-91
UpdateDataStmt(table, key, value) ==
    [text |-> Format(UpdateHead, Sanitize(table), <<UpdateTail>>),
     binds |-> <<value, key>>]

\* get_data that interpolates the name as the caller sent it
GetDataStmtRaw(table, key) ==
    [text |-> Format(SelectHead, table, <<SelectTail>>), binds |-> <<key>>]

\* database.rs:108-113
GetDataStmt(table, key) ==
    [text |-> Format(SelectHead, Sanitize(table), <<SelectTail>>),
     binds |-> <<key>>]

\* delete_data that issues the statement of delete_table
DeleteDataStmtDrops(table, key) ==
    [text |-> Format(DropHead, Sanitize(table), <<>>), binds |-> <<>>]

\* delete_data that interpolates the name as the caller sent it
DeleteDataStmtRaw(table, key) ==
    [text |-> Format(DeleteHead, table, <<DeleteTail>>), binds |-> <<key>>]

\* delete_data that writes the key into the statement
DeleteDataStmtInline(table, key) ==
    [text |-> Format(DeleteHead, Sanitize(table), <<" WHERE key = '", key, "'">>),
     binds |-> <<>>]

\* database.rs:128-133
DeleteDataStmt(table, key) ==
    [text |-> Format(DeleteHead, Sanitize(table), <<DeleteTail>>),
     binds |-> <<key>>]

\* delete_table that interpolates the name as the caller sent it
DeleteTableStmtRaw(table) ==
    [text |-> Format(DropHead, table, <<>>), binds |-> <<>>]

\* database.rs:148-152
DeleteTableStmt(table) ==
    [text |-> Format(DropHead, Sanitize(table), <<>>), binds |-> <<>>]

(***************************************************************************)
(* Results of a Database call: Result<(), sqlx::Error> and                 *)
(* Result<Option<String>, sqlx::Error>.  err is the text of the error.     *)
(***************************************************************************)
NoValue == "<none>"
OkUnit == [ok |-> TRUE, val |-> NoValue, err |-> ""]
OkNone == [ok |-> TRUE, val |-> NoValue, err |-> ""]
OkSome(v) == [ok |-> TRUE, val |-> v, err |-> ""]
Err(e) == [ok |-> FALSE, val |-> NoValue, err |-> e]

Unavailable == "backend unavailable"
NoSuchTable == "no such table"
SyntaxError == "syntax error"

(***************************************************************************)
(* The backend.  tabs maps the identifier of each existing table to its    *)
(* set of rows <<key, value>>.                                             *)
(***************************************************************************)
Tails ==
    (CreateHead :> <<CreateTail>>) @@ (InsertHead :> <<InsertTail>>) @@
    (UpdateHead :> <<UpdateTail>>) @@ (SelectHead :> <<SelectTail>>) @@
    (DeleteHead :> <<DeleteTail>>) @@ (DropHead :> <<>>)

\* positions of the quotes that can close the identifier opened at 2
Closers(text) == {j \in 3 .. Len(text) : text[j] = Quote}
CloseAt(text) == CHOOSE j \in Closers(text) : \A i \in Closers(text) : j <= i

\* the statement is one the backend can parse
WellFormed(text) ==
    /\ Len(text) >= 3
    /\ text[1] \in DOMAIN Tails
    /\ text[2] = Quote
    /\ Closers(text) # {}
    /\ SubSeq(text, CloseAt(text) + 1, Len(text)) = Tails[text[1]]

\* the quoted identifier of a well-formed statement
Ident(text) == SubSeq(text, 3, CloseAt(text) - 1)

\* rows of a table without those of one key
Without(rows, key) == {row \in rows : row[1] # key}
Matching(rows, key) == {row \in rows : row[1] = key}

\* INSERT OR REPLACE: the row replaces whatever row has its primary key
InsertOrReplace(rows, key, value) == Without(rows, key) \cup {<<key, value>>}

\* UPDATE .. SET value without the WHERE clause: every row gets the value
UpdateRowsEvery(rows, key, value) == {<<row[1], value>> : row \in rows}

\* UPDATE .. SET value WHERE key: every matching row gets the value
UpdateRows(rows, key, value) ==
    {IF row[1] = key THEN <<key, value>> ELSE row : row \in rows}

\* fetch_optional on SELECT value: the first row's value, if there is a row
FetchOptional(rows, key) ==
    IF Matching(rows, key) = {} THEN OkNone
    ELSE OkSome((CHOOSE row \in Matching(rows, key) : TRUE)[2])

\* one statement on the backend; up is whether the backend can be reached
Exec(tabs, stmt, up) ==
    IF ~up THEN [tabs |-> tabs, out |-> Err(Unavailable)]
    ELSE IF ~WellFormed(stmt.text) THEN [tabs |-> tabs, out |-> Err(SyntaxError)]
    ELSE LET head == stmt.text[1]
             id == Ident(stmt.text)
             b == stmt.binds
         IN  IF head = CreateHead
             THEN [tabs |-> IF id \in DOMAIN tabs THEN tabs ELSE tabs @@ (id :> {}),
                   out |-> OkUnit]
             ELSE IF head = DropHead
             THEN [tabs |-> [i \in DOMAIN tabs \ {id} |-> tabs[i]], out |-> OkUnit]
             ELSE IF id \notin DOMAIN tabs
             THEN [tabs |-> tabs, out |-> Err(NoSuchTable)]
             ELSE IF head = InsertHead
             THEN [tabs |-> [tabs EXCEPT ![id] = InsertOrReplace(@, b[1], b[2])],
                   out |-> OkUnit]
             ELSE IF head = UpdateHead
             THEN [tabs |-> [tabs EXCEPT ![id] = UpdateRows(@, b[2], b[1])],
                   out |-> OkUnit]
             ELSE IF head = SelectHead
             THEN [tabs |-> tabs, out |-> FetchOptional(tabs[id], b[1])]
             ELSE [tabs |-> [tabs EXCEPT ![id] = Without(@, b[1])], out |-> OkUnit]

(***************************************************************************)
(* Requests.                                                               *)
(***************************************************************************)
\* what callers send to the storage specification ...
Names == {<<"a", ";", "b">>, <<"a", "b">>, <<"c">>}
Keys == {"k1", "k2"}
Values == {"v1", "v2"}
Full == [names |-> Names, keys |-> Keys, values |-> Values]
\* ... and what concurrent callers send
Few == [names |-> {<<"a", ";", "b">>}, keys |-> {"k1"}, values |-> Values]
One == [names |-> {<<"a", ";", "b">>}, keys |-> {"k1"}, values |-> {"v1"}]

Ops == {"set_data", "get_data", "update_data", "delete_data", "delete_table"}

\* server.rs:21-38  TableKeyValue, TableKey, Table: the fields a body has
HasKey(op) == op # "delete_table"
HasValue(op) == op \in {"set_data", "update_data"}
Bodies(op, dom) ==
    {[table |-> t, key |-> k, value |-> v] :
        t \in dom.names,
        k \in IF HasKey(op) THEN dom.keys ELSE {""},
        v \in IF HasValue(op) THEN dom.values ELSE {""}}

\* only set_data starts with init_table
CallsInitTableOnlySet(op) == op = "set_data"

\* get_data without init_table
CallsInitTableNotGet(op) == op \in {"set_data", "update_data"}

\* the Database methods that start with self.init_table(table).await?
CallsInitTable(op) == op \in {"set_data", "update_data", "get_data"}

\* where a handler is when it has the lock: at init_table or at its statement
FirstPc(op) == IF CallsInitTable(op) THEN "init" ELSE "data"

\* the statement of a Database method after init_table
DataStmt(op, table, key, value) ==
    CASE op = "set_data" -> SetDataStmt(table, key, value)
      [] op = "update_data" -> UpdateDataStmt(table, key, value)
      [] op = "get_data" -> GetDataStmt(table, key)
      [] op = "delete_data" -> DeleteDataStmt(table, key)
      [] op = "delete_table" -> DeleteTableStmt(table)

(***************************************************************************)
(* HTTP answers (server.rs).                                               *)
(***************************************************************************)
Answer(code, status, message, data) ==
    [code |-> code, status |-> status, message |-> message, data |-> data]

\* server.rs:109-123
SetDataResponse(out) ==
    IF out.ok THEN Answer(200, "success", "Data set successfully", NoValue)
    ELSE Answer(500, "error", "Failed to set data", NoValue)

\* get_data that answers a missing key with a "success" envelope
GetDataResponseNotFoundSucceeds(out) ==
    IF out.ok /\ out.val # NoValue
    THEN Answer(200, "success", "Data retrieved successfully", out.val)
    ELSE IF out.ok THEN Answer(404, "success", "Data not found", NoValue)
    ELSE Answer(500, "error", "Failed to retrieve data", NoValue)

\* get_data that reports a missing key as a failure
GetDataResponseNoneFails(out) ==
    IF out.ok /\ out.val # NoValue
    THEN Answer(200, "success", "Data retrieved successfully", out.val)
    ELSE Answer(500, "error", "Failed to retrieve data", NoValue)

\* server.rs:141-160
GetDataResponse(out) ==
    IF out.ok /\ out.val # NoValue
    THEN Answer(200, "success", "Data retrieved successfully", out.val)
    ELSE IF out.ok THEN Answer(404, "error", "Data not found", NoValue)
    ELSE Answer(500, "error", "Failed to retrieve data", NoValue)

\* server.rs:178-192
UpdateDataResponse(out) ==
    IF out.ok THEN Answer(200, "success", "Data updated successfully", NoValue)
    ELSE Answer(500, "error", "Failed to update data", NoValue)

\* delete_data that tells the caller what the backend said
DeleteDataResponseEchoes(out) ==
    IF out.ok THEN Answer(200, "success", "Data deleted successfully", NoValue)
    ELSE Answer(500, "error", out.err, NoValue)

\* server.rs:210-224
DeleteDataResponse(out) ==
    IF out.ok THEN Answer(200, "success", "Data deleted successfully", NoValue)
    ELSE Answer(500, "error", "Failed to delete data", NoValue)

\* server.rs:242-256
DeleteTableResponse(out) ==
    IF out.ok THEN Answer(200, "success", "Table deleted successfully", NoValue)
    ELSE Answer(500, "error", "Failed to delete table", NoValue)

Response(op, out) ==
    CASE op = "set_data" -> SetDataResponse(out)
      [] op = "get_data" -> GetDataResponse(out)
      [] op = "update_data" -> UpdateDataResponse(out)
      [] op = "delete_data" -> DeleteDataResponse(out)
      [] op = "delete_table" -> DeleteTableResponse(out)

(***************************************************************************)
(* State.                                                                  *)
(***************************************************************************)
VARIABLES
    tables,     \* the backend: identifier -> set of rows <<key, value>>
    mutex,      \* the request that holds the Mutex<Database>, 0 when free
    waiters,    \* the requests queued in db.lock().await, oldest first
    req,        \* per request: where its handler is, its body, the result
                \* of its Database call
    last,       \* history: the request answered last, with its answer
    kv,         \* history: a sequential map, the Database calls applied to
                \* it one at a time in the order the lock was held
    probe       \* a table name and the statements formatted for it

vars == <<tables, mutex, waiters, req, last, kv, probe>>

NoTables == [i \in {} |-> {}]

\* history: what the backend held for a request when the first statement of
\* its Database call ran: whether its table existed, and the rows of its key
\* (of any key, for a body without a key)
Stored(tabs, table, key) ==
    IF Sanitize(table) \notin DOMAIN tabs THEN [exists |-> FALSE, rows |-> {}]
    ELSE [exists |-> TRUE,
          rows |-> IF key = "" THEN tabs[Sanitize(table)]
                   ELSE Matching(tabs[Sanitize(table)], key)]
Nothing == [exists |-> FALSE, rows |-> {}]

Idle == [pc |-> "idle", op |-> "", table |-> <<>>, key |-> "", value |-> "",
         out |-> OkUnit, old |-> Nothing]
NoAnswer == [op |-> "", table |-> <<>>, key |-> "", value |-> "",
             out |-> OkUnit, old |-> Nothing, resp |-> Answer(0, "", "", NoValue)]
NoProbe == [stage |-> "none", name |-> <<>>, key |-> "", value |-> "",
            once |-> <<>>, twice |-> <<>>, stmts |-> <<>>]

\* the sequential map: triples <<identifier, key, value>>
SeqApply(m, op, table, key, value) ==
    LET id == Sanitize(table)
        others == {e \in m : ~(e[1] = id /\ e[2] = key)}
    IN  CASE op = "set_data" -> others \cup {<<id, key, value>>}
          [] op = "update_data" -> IF others = m THEN m
                                   ELSE others \cup {<<id, key, value>>}
          [] op = "delete_data" -> others
          [] op = "delete_table" -> {e \in m : e[1] # id}
          [] op = "get_data" -> m
SeqGet(m, table, key) ==
    LET hits == {e \in m : e[1] = Sanitize(table) /\ e[2] = key}
    IN  IF hits = {} THEN OkNone ELSE OkSome((CHOOSE e \in hits : TRUE)[3])
Flatten(tabs) == UNION {{<<id, row[1], row[2]>> : row \in tabs[id]} : id \in DOMAIN tabs}

Init ==
    /\ tables = NoTables
    /\ mutex = 0
    /\ waiters = <<>>
    /\ req = [r \in Reqs |-> Idle]
    /\ last = NoAnswer
    /\ kv = {}
    /\ probe = NoProbe

\* a handler that calls the Database without taking the lock
DispatchUnlocked(r, dom) ==
    /\ req[r].pc = "idle"
    /\ \E op \in Ops : \E body \in Bodies(op, dom) :
         req' = [req EXCEPT ![r] = [Idle EXCEPT !.pc = FirstPc(op), !.op = op,
                                                !.table = body.table,
                                                !.key = body.key,
                                                !.value = body.value]]
    /\ UNCHANGED <<tables, mutex, waiters, last, kv, probe>>

\* server.rs:108,140,177,209,241  a request arrives and its handler runs up
\* to db.lock().await: tokio's Mutex grants the lock at once when nobody
\* holds it and queues the caller otherwise
Dispatch(r, dom) ==
    /\ req[r].pc = "idle"
    /\ \E op \in Ops : \E body \in Bodies(op, dom) :
         LET q == [Idle EXCEPT !.pc = IF mutex = 0 THEN FirstPc(op) ELSE "waiting",
                               !.op = op, !.table = body.table,
                               !.key = body.key, !.value = body.value]
         IN  /\ req' = [req EXCEPT ![r] = q]
             /\ mutex' = IF mutex = 0 THEN r ELSE mutex
             /\ waiters' = IF mutex = 0 THEN waiters ELSE Append(waiters, r)
    /\ UNCHANGED <<tables, last, kv, probe>>

\* init_table(table).await without the ?: the method goes on to its
\* statement whatever init_table returned
EnsureTableIgnoresError(r) ==
    /\ req[r].pc = "init"
    /\ \E up \in BOOLEAN :
         LET res == Exec(tables, InitTableStmt(req[r].table), up)
         IN  /\ tables' = res.tabs
             /\ req' = [req EXCEPT ![r].pc = "data",
                                   ![r].out = res.out,
                                   ![r].old = Stored(tables, req[r].table, req[r].key)]
    /\ UNCHANGED <<mutex, waiters, last, kv, probe>>

\* database.rs:55,84,107  self.init_table(table).await?
EnsureTable(r) ==
    /\ req[r].pc = "init"
    /\ \E up \in BOOLEAN :
         LET res == Exec(tables, InitTableStmt(req[r].table), up)
         IN  /\ tables' = res.tabs
             /\ req' = [req EXCEPT ![r].pc = IF res.out.ok THEN "data" ELSE "reply",
                                   ![r].out = res.out,
                                   ![r].old = Stored(tables, req[r].table, req[r].key)]
    /\ UNCHANGED <<mutex, waiters, last, kv, probe>>

\* database.rs:56-64,85-93,108-114,128-135,148-154  the method's statement
Statement(r) ==
    /\ req[r].pc = "data"
    /\ \E up \in BOOLEAN :
         LET res == Exec(tables,
                         DataStmt(req[r].op, req[r].table, req[r].key, req[r].value),
                         up)
         IN  /\ tables' = res.tabs
             /\ req' = [req EXCEPT ![r].pc = "reply", ![r].out = res.out,
                                   ![r].old = IF CallsInitTable(req[r].op) THEN @
                                              ELSE Stored(tables, req[r].table,
                                                          req[r].key)]
    /\ UNCHANGED <<mutex, waiters, last, kv, probe>>

\* a handler whose error path returns without dropping the guard
ReplyKeepsLockOnError(r) ==
    /\ req[r].pc = "reply"
    /\ last' = [op |-> req[r].op, table |-> req[r].table, key |-> req[r].key,
                value |-> req[r].value, out |-> req[r].out, old |-> req[r].old,
                resp |-> Response(req[r].op, req[r].out)]
    /\ kv' = IF req[r].out.ok
             THEN SeqApply(kv, req[r].op, req[r].table, req[r].key, req[r].value)
             ELSE kv
    /\ IF ~req[r].out.ok
       THEN /\ UNCHANGED <<mutex, waiters>>
            /\ req' = [req EXCEPT ![r] = Idle]
       ELSE IF waiters = <<>>
       THEN /\ mutex' = 0
            /\ waiters' = waiters
            /\ req' = [req EXCEPT ![r] = Idle]
       ELSE /\ mutex' = Head(waiters)
            /\ waiters' = Tail(waiters)
            /\ req' = [req EXCEPT ![r] = Idle,
                                  ![Head(waiters)].pc = FirstPc(req[Head(waiters)].op)]
    /\ UNCHANGED <<tables, probe>>

\* a lock whose release takes the oldest waiter off the queue without
\* waking it
ReplyForgetsWaiter(r) ==
    /\ req[r].pc = "reply"
    /\ last' = [op |-> req[r].op, table |-> req[r].table, key |-> req[r].key,
                value |-> req[r].value, out |-> req[r].out, old |-> req[r].old,
                resp |-> Response(req[r].op, req[r].out)]
    /\ kv' = IF req[r].out.ok
             THEN SeqApply(kv, req[r].op, req[r].table, req[r].key, req[r].value)
             ELSE kv
    /\ mutex' = 0
    /\ waiters' = IF waiters = <<>> THEN waiters ELSE Tail(waiters)
    /\ req' = [req EXCEPT ![r] = Idle]
    /\ UNCHANGED <<tables, probe>>

\* server.rs:109-123,141-160,178-192,210-224,242-256  the Database call has
\* returned: the handler builds its answer and returns, which drops the
\* guard; the lock passes to the oldest waiter
Reply(r) ==
    /\ req[r].pc = "reply"
    /\ last' = [op |-> req[r].op, table |-> req[r].table, key |-> req[r].key,
                value |-> req[r].value, out |-> req[r].out, old |-> req[r].old,
                resp |-> Response(req[r].op, req[r].out)]
    /\ kv' = IF req[r].out.ok
             THEN SeqApply(kv, req[r].op, req[r].table, req[r].key, req[r].value)
             ELSE kv
    /\ IF waiters = <<>>
       THEN /\ mutex' = 0
            /\ waiters' = waiters
            /\ req' = [req EXCEPT ![r] = Idle]
       ELSE /\ mutex' = Head(waiters)
            /\ waiters' = Tail(waiters)
            /\ req' = [req EXCEPT ![r] = Idle,
                                  ![Head(waiters)].pc = FirstPc(req[Head(waiters)].op)]
    /\ UNCHANGED <<tables, probe>>

\* concurrent callers
Next ==
    \E r \in Reqs : Dispatch(r, Few) \/ EnsureTable(r) \/ Statement(r) \/ Reply(r)

Spec == Init /\ [][Next]_vars

\* the runtime polls every handler that can go on, and every backend call
\* returns; requests need not arrive
Fairness ==
    \A r \in Reqs :
        WF_vars(EnsureTable(r)) /\ WF_vars(Statement(r)) /\ WF_vars(Reply(r))

\* concurrent callers that all send the same table, key and value
NextLive ==
    \E r \in Reqs : Dispatch(r, One) \/ EnsureTable(r) \/ Statement(r) \/ Reply(r)

LiveSpec == Init /\ [][NextLive]_vars /\ Fairness

\* one caller, one request after the other
NextStore == Dispatch(1, Full) \/ EnsureTable(1) \/ Statement(1) \/ Reply(1)

StoreSpec == Init /\ [][NextStore]_vars

(***************************************************************************)
(* The statements of one table name, for every name up to MaxLen           *)
(* characters.                                                             *)
(***************************************************************************)
StringsUpTo(n) == UNION {[1 .. m -> Alphabet] : m \in 0 .. n}

FormatInit ==
    /\ tables = NoTables
    /\ mutex = 0
    /\ waiters = <<>>
    /\ req = [r \in Reqs |-> Idle]
    /\ last = NoAnswer
    /\ kv = {}
    /\ probe \in {[NoProbe EXCEPT !.stage = "input", !.name = n] : n \in StringsUpTo(MaxLen)}

\* database.rs:30-155  each method formats its statement for the name
FormatStatements ==
    /\ probe.stage = "input"
    /\ \E k \in Keys, v \in Values :
         probe' = [probe EXCEPT
                     !.stage = "formatted", !.key = k, !.value = v,
                     !.once = Sanitize(probe.name),
                     !.stmts = <<InitTableStmt(probe.name),
                                 SetDataStmt(probe.name, k, v),
                                 UpdateDataStmt(probe.name, k, v),
                                 GetDataStmt(probe.name, k),
                                 DeleteDataStmt(probe.name, k),
                                 DeleteTableStmt(probe.name)>>]
    /\ UNCHANGED <<tables, mutex, waiters, req, last, kv>>

\* utils.rs:15-19  the sanitized name goes through sanitize again
Resanitize ==
    /\ probe.stage = "formatted"
    /\ probe' = [probe EXCEPT !.stage = "again", !.twice = Sanitize(probe.once)]
    /\ UNCHANGED <<tables, mutex, waiters, req, last, kv>>

FormatNext == FormatStatements \/ Resanitize

FormatSpec == FormatInit /\ [][FormatNext]_vars

(***************************************************************************)
(* Properties.                                                             *)
(***************************************************************************)
Replying(r, op) == req[r].pc = "reply" /\ req[r].op = op
SameTable(a, b) == Sanitize(a) = Sanitize(b)
\* the last answer was a successful op on the table and key of request r
Follows(r, op) ==
    /\ last.op = op
    /\ last.out.ok
    /\ SameTable(last.table, req[r].table)
    /\ (last.key = req[r].key \/ last.key = "" \/ req[r].key = "")
InCall(r) == req[r].pc \in {"init", "data", "reply"}

\* C1: a delete_data whose table does not exist, the backend being
\* reachable, returns Ok, leaves the backend as it was and is answered 200.
C1_DeleteOnMissingTableSucceeds ==
    \A r \in Reqs :
        (Replying(r, "delete_data") /\ ~req[r].old.exists
         /\ req[r].out.err # Unavailable)
        => /\ req[r].out.ok
           /\ Response(req[r].op, req[r].out).code = 200

\* C2: a get_data that follows a successful set_data of the same table and
\* key returns the value that was set, whether the set inserted the row or
\* replaced one (the only other outcome is an unreachable backend), and no
\* table ever has two rows of one key.
C2_GetReturnsWhatWasSet ==
    /\ \A r \in Reqs :
         (Replying(r, "get_data") /\ Follows(r, "set_data"))
         => req[r].out \in {OkSome(last.value), Err(Unavailable)}
    /\ \A id \in DOMAIN tables : \A k \in Keys :
         Cardinality(Matching(tables[id], k)) <= 1

\* C2 witness: v2 replaced v1 and the following get_data returned v2
C2_Witness ==
    /\ Replying(1, "get_data") /\ Follows(1, "set_data")
    /\ last.old.rows = {<<last.key, "v1">>}
    /\ last.value = "v2"
    /\ req[1].out = OkSome("v2")

\* C3: an update_data whose key has no row, the backend being reachable,
\* returns Ok and is answered 200, its statement changes no row of any
\* table, and a get_data that follows it returns None and is answered 404.
C3_UpdateOfAbsentKeyStep(r) ==
    (/\ req[r].pc = "data" /\ req[r].op = "update_data"
     /\ req'[r].pc = "reply"
     /\ Stored(tables, req[r].table, req[r].key).rows = {}
     /\ req'[r].out.err # Unavailable)
    => /\ req'[r].out.ok
       /\ Response("update_data", req'[r].out).code = 200
       /\ tables' = tables
       /\ Stored(tables', req[r].table, req[r].key).rows = {}
C3_GetAfterUpdateOfAbsentKey(r) ==
    (Replying(r, "get_data") /\ Follows(r, "update_data") /\ last.old.rows = {})
    => /\ req[r].out \in {OkNone, Err(Unavailable)}
       /\ req[r].out.ok => Response("get_data", req[r].out).code = 404
C3_UpdateOfAbsentKeyIsNoop ==
    [][\A r \in Reqs : /\ C3_UpdateOfAbsentKeyStep(r)
                       /\ C3_GetAfterUpdateOfAbsentKey(r)']_vars

\* C3 witness: update_data of a key without a row was answered 200 and the
\* get_data after it found nothing
C3_Witness ==
    /\ Replying(1, "get_data") /\ Follows(1, "update_data")
    /\ last.old = [exists |-> TRUE, rows |-> {}]
    /\ last.resp.code = 200
    /\ req[1].out = OkNone
    /\ tables[Sanitize(req[1].table)] # {}

\* C4: at most one request is inside a Database call, and it is the one
\* that holds the lock, from its first statement until its answer.
C4_OneRequestInsideTheStore ==
    /\ \A r1, r2 \in Reqs : (InCall(r1) /\ InCall(r2)) => r1 = r2
    /\ \A r \in Reqs : InCall(r) <=> mutex = r

\* C4 witness: one request is at its statement while another one waits
C4_Witness ==
    \E r1, r2 \in Reqs : req[r1].pc = "data" /\ req[r2].pc = "waiting"

\* C5: with concurrent requests the results are those of a sequential map
\* to which the Database calls are applied whole, in the order the lock was
\* held: a get_data returns what the map holds for its table and key (or
\* reports an unreachable backend), and between calls the backend's rows
\* are the map's entries.
C5_SequentialMap ==
    /\ \A r \in Reqs :
         Replying(r, "get_data")
         => req[r].out \in {SeqGet(kv, req[r].table, req[r].key), Err(Unavailable)}
    /\ (\A r \in Reqs : req[r].pc # "reply") => Flatten(tables) = kv

\* C5 witness: a get_data returned the value of the latest write while
\* another request waited for the lock
C5_Witness ==
    \E r1, r2 \in Reqs :
        /\ Replying(r1, "get_data") /\ req[r1].out = OkSome("v2")
        /\ last.op \in {"set_data", "update_data"}
        /\ last.old.rows = {<<last.key, "v1">>}
        /\ req[r2].pc = "waiting"

\* C6: a get_data that follows a successful delete_table of its table
\* returns None, also for a key that had a row when the table was dropped;
\* the only error it can return is an unreachable backend.
C6_GetAfterDeleteTable ==
    \A r \in Reqs :
        (Replying(r, "get_data") /\ Follows(r, "delete_table"))
        => req[r].out \in {OkNone, Err(Unavailable)}

\* C6 witness: the table was dropped with a row of the key in it, get_data
\* found no table, created it and returned None
C6_Witness ==
    /\ Replying(1, "get_data") /\ Follows(1, "delete_table")
    /\ \E v \in Values : <<req[1].key, v>> \in last.old.rows
    /\ ~req[1].old.exists
    /\ req[1].out = OkNone

\* C7: two different names with the same sanitized form are one table: a
\* get_data through one returns what set_data through the other wrote, and
\* nothing after delete_data or delete_table through the other; delete_data
\* and delete_table through one remove what set_data through the other wrote.
C7_Colliding(r) == last.table # req[r].table /\ SameTable(last.table, req[r].table)
C7_CollidingNamesShareATable ==
    \A r \in Reqs :
        /\ (Replying(r, "get_data") /\ C7_Colliding(r) /\ Follows(r, "set_data"))
           => req[r].out \in {OkSome(last.value), Err(Unavailable)}
        /\ (Replying(r, "get_data") /\ C7_Colliding(r)
            /\ (Follows(r, "delete_data") \/ Follows(r, "delete_table")))
           => req[r].out \in {OkNone, Err(Unavailable)}
        /\ (Replying(r, "delete_data") /\ C7_Colliding(r) /\ Follows(r, "set_data"))
           => \/ /\ req[r].out.ok
                 /\ req[r].old.rows = {<<last.key, last.value>>}
                 /\ Stored(tables, last.table, last.key) = [exists |-> TRUE, rows |-> {}]
              \/ req[r].out = Err(Unavailable)
        /\ (Replying(r, "delete_table") /\ C7_Colliding(r) /\ Follows(r, "set_data"))
           => \/ /\ req[r].out.ok
                 /\ <<last.key, last.value>> \in req[r].old.rows
                 /\ ~Stored(tables, last.table, last.key).exists
              \/ req[r].out = Err(Unavailable)

\* C7 witness: set_data through "a;b", get_data through "ab" returned it
C7_Witness ==
    /\ Replying(1, "get_data") /\ Follows(1, "set_data")
    /\ last.table = <<"a", ";", "b">>
    /\ req[1].table = <<"a", "b">>
    /\ req[1].out = OkSome(last.value)

\* out is str without the characters that are neither alphanumeric nor
\* underscore, the others in their order
RECURSIVE IsFilterOf(_, _)
IsFilterOf(out, str) ==
    IF str = <<>> THEN out = <<>>
    ELSE IF Head(str) \in AlphaNumeric \cup {"_"}
         THEN out # <<>> /\ Head(out) = Head(str) /\ IsFilterOf(Tail(out), Tail(str))
         ELSE IsFilterOf(out, Tail(str))

\* what stands between the head and the tail of a statement's format string
Interpolated(text) == SubSeq(text, 2, Len(text) - Len(Tails[text[1]]))
Formatted == probe.stage \in {"formatted", "again"}

C9_SanitizeIdempotent ==
    probe.stage = "again" => probe.twice = probe.once

\* C9 witness: a name that sanitize shortened, but not to nothing, was
\* sanitized twice
C9_Witness ==
    /\ probe.stage = "again"
    /\ probe.once # probe.name
    /\ probe.once # <<>>

\* C10: the statement text of set_data, update_data, get_data and
\* delete_data is the same for every key and value, and the same for the
\* sanitized name as for the name; no piece of the text is the key or the
\* value, which are the bound parameters.
C10_KeyAndValueOnlyBound ==
    Formatted =>
      /\ \A k \in Keys, v \in Values :
           /\ SetDataStmt(probe.once, k, v).text = probe.stmts[2].text
           /\ UpdateDataStmt(probe.once, k, v).text = probe.stmts[3].text
           /\ GetDataStmt(probe.once, k).text = probe.stmts[4].text
           /\ DeleteDataStmt(probe.once, k).text = probe.stmts[5].text
      /\ \A i \in 2 .. 5 : \A j \in 1 .. Len(probe.stmts[i].text) :
           probe.stmts[i].text[j] \notin {probe.key, probe.value}
      /\ probe.stmts[2].binds = <<probe.key, probe.value>>
      /\ probe.stmts[3].binds = <<probe.value, probe.key>>
      /\ probe.stmts[4].binds = <<probe.key>>
      /\ probe.stmts[5].binds = <<probe.key>>

\* C10 witness: statements formatted for key k2 and value v2
C10_Witness ==
    /\ Formatted
    /\ probe.key = "k2" /\ probe.value = "v2"
    /\ probe.stmts[2].binds = <<"k2", "v2">>
    /\ probe.name # probe.once

Answered(op) == last.op = op
ErrorTexts == {Unavailable, NoSuchTable, SyntaxError}

\* C11: the backend being reachable, GET /get_data is answered 200 with the
\* stored value as data exactly when the table had a row of the key, and 404
\* exactly when it had none; it is answered 500 exactly when the Database
\* call returned an error, which a missing key never is.
C11_GetAnswers ==
    Answered("get_data") =>
      /\ last.resp.code \in {200, 404, 500}
      /\ last.resp.code = 500 <=> ~last.out.ok
      /\ ~last.out.ok => last.out.err = Unavailable
      /\ last.out.ok =>
           /\ last.resp.code = 200 <=> last.old.rows # {}
           /\ last.resp.code = 404 <=> last.old.rows = {}
           /\ last.resp.code = 200 => last.old.rows = {<<last.key, last.resp.data>>}

\* C11 witness: a key without a row in an existing table with rows was
\* answered 404
C11_Witness ==
    /\ Answered("get_data")
    /\ last.resp.code = 404
    /\ last.old = [exists |-> TRUE, rows |-> {}]
    /\ tables[Sanitize(last.table)] # {}

\* C12: a Database call that returned an error is answered 500 with status
\* "error" and no data, and the answer is the same whatever the error says:
\* the message is not the error's text.
C12_ErrorAnswerIsOpaque ==
    (last.op # "" /\ ~last.out.ok) =>
      /\ last.resp.code = 500
      /\ last.resp.status = "error"
      /\ last.resp.data = NoValue
      /\ last.resp.message \notin ErrorTexts
      /\ \A e \in ErrorTexts : Response(last.op, Err(e)) = last.resp

\* C12 witness: delete_data failed on a missing table and was answered 500
C12_Witness ==
    /\ Answered("delete_data")
    /\ last.out = Err(NoSuchTable)
    /\ last.resp.code = 500

\* C13: a request answered 500 gives the lock up like any other: the lock
\* goes to the oldest waiter, which is then inside its Database call, or is
\* free; and every request that is pending after a 500 is answered.
C13_FailedReplyStep(r) ==
    (req[r].pc = "reply" /\ ~req[r].out.ok /\ req'[r].pc = "idle")
    => /\ last'.resp.code = 500
       /\ mutex' # r
       /\ waiters = <<>> => mutex' = 0
       /\ waiters # <<>> => (mutex' = Head(waiters)
                             /\ req'[Head(waiters)].pc \in {"init", "data"})
C13_FailureIsNotFatal ==
    /\ [][\A r \in Reqs : C13_FailedReplyStep(r)]_vars
    /\ \A r \in Reqs :
         (last.resp.code = 500 /\ req[r].pc # "idle") ~> (req[r].pc = "idle")

\* C13 witness: after a request was answered 500 another one has the lock
\* and its Database call has returned Ok
C13_Witness ==
    /\ last.resp.code = 500
    /\ \E r \in Reqs : req[r].pc = "reply" /\ req[r].out.ok /\ mutex = r

\* C14: every request that has arrived, waiting for the lock or holding it,
\* is answered (a request gets from waiting to answered only through the
\* lock and its Database call).
C14_EveryRequestIsAnswered ==
    \A r \in Reqs : (req[r].pc # "idle") ~> (req[r].pc = "idle")

\* C14 witness: a request waits for the lock while the holder's Database
\* call has returned
C14_Witness ==
    \E r1, r2 \in Reqs : req[r1].pc = "reply" /\ req[r2].pc = "waiting"

\* the statement of request r runs in this step, with the backend reachable
Runs(r, op) ==
    /\ req[r].pc = "data" /\ req[r].op = op
    /\ req'[r].pc = "reply"
    /\ req'[r].out.err # Unavailable

\* C15: delete_data on an existing table, the backend being reachable,
\* returns Ok and leaves the key without a row; when the key had no row it
\* changes nothing; a get_data that follows a successful delete_data
\* returns None.
C15_DeleteStep(r) ==
    (Runs(r, "delete_data") /\ Stored(tables, req[r].table, req[r].key).exists)
    => /\ req'[r].out.ok
       /\ Stored(tables', req[r].table, req[r].key) = [exists |-> TRUE, rows |-> {}]
       /\ Stored(tables, req[r].table, req[r].key).rows = {} => tables' = tables
C15_GetAfterDelete(r) ==
    (Replying(r, "get_data") /\ Follows(r, "delete_data"))
    => req[r].out \in {OkNone, Err(Unavailable)}
C15_DeleteThenGetIsNone ==
    [][\A r \in Reqs : C15_DeleteStep(r) /\ C15_GetAfterDelete(r)']_vars

\* C15 witness: the key had a row, delete_data removed it and the get_data
\* after it returned None
C15_Witness ==
    /\ Replying(1, "get_data") /\ Follows(1, "delete_data")
    /\ last.old.rows # {}
    /\ req[1].out = OkNone

\* C16: delete_table, the backend being reachable, returns Ok and is
\* answered 200 whether the table exists or not; when it does not exist the
\* backend is left as it was, when it exists the table with its rows is gone
\* and every other table is as it was.
C16_DeleteTableStep(r) ==
    Runs(r, "delete_table")
    => /\ req'[r].out.ok
       /\ Response("delete_table", req'[r].out).code = 200
       /\ Sanitize(req[r].table) \notin DOMAIN tables'
       /\ Sanitize(req[r].table) \notin DOMAIN tables => tables' = tables
       /\ \A id \in DOMAIN tables \ {Sanitize(req[r].table)} :
            id \in DOMAIN tables' /\ tables'[id] = tables[id]
C16_DeleteTableAlwaysSucceeds ==
    [][\A r \in Reqs : C16_DeleteTableStep(r)]_vars

\* C16 witness: a table with rows was dropped and the request answered 200
C16_Witness ==
    /\ Answered("delete_table")
    /\ last.old.exists /\ last.old.rows # {}
    /\ last.resp.code = 200
    /\ Sanitize(last.table) \notin DOMAIN tables

\* C17: set_data, update_data and get_data need no table to be there: the
\* backend being reachable they return Ok, and after any of them has
\* returned Ok its table exists, also when update_data matched no row and
\* when get_data returned None.
C17_TablesAreProvisionedByUse ==
    \A r \in Reqs :
        (req[r].pc = "reply" /\ req[r].op \in {"set_data", "update_data", "get_data"})
        => /\ req[r].out.err # Unavailable => req[r].out.ok
           /\ req[r].out.ok => Sanitize(req[r].table) \in DOMAIN tables

\* C17 witness: update_data on a table that did not exist returned Ok and
\* left the table, empty
C17_Witness ==
    /\ Replying(1, "update_data")
    /\ ~req[1].old.exists
    /\ req[1].out.ok
    /\ Stored(tables, req[1].table, "") = [exists |-> TRUE, rows |-> {}]

\* C18: every answer of a handler is an envelope whose status is "success"
\* or "error"; the status is "success" exactly when the code is 200; an
\* "error" envelope has code 404 or 500 and no data; data is present only in
\* a 200 answer of get_data.
C18_UniformEnvelope ==
    last.op # "" =>
      /\ last.resp.status \in {"success", "error"}
      /\ last.resp.status = "success" <=> last.resp.code = 200
      /\ last.resp.status = "error" =>
           (last.resp.code \in {404, 500} /\ last.resp.data = NoValue)
      /\ last.resp.data # NoValue => (last.resp.code = 200 /\ last.op = "get_data")

\* C18 witness: a get_data on an existing table answered 404, an "error"
\* envelope without data
C18_Witness ==
    /\ Answered("get_data")
    /\ last.resp.code = 404 /\ last.resp.status = "error"
    /\ last.resp.data = NoValue
    /\ last.old.exists

NeedsTable == {"set_data", "update_data", "get_data"}

\* C19: whatever the interleaving of the requests, between the init_table
\* of a set_data, update_data or get_data and its own statement nothing else
\* touches the backend, the statement runs on an existing table, and the
\* call never returns "no such table".
C19_StatementStep(r) ==
    (req[r].pc = "data" /\ req[r].op \in NeedsTable)
    => /\ Sanitize(req[r].table) \in DOMAIN tables
       /\ req'[r].pc = "data" => tables' = tables
       /\ req'[r].out.err # NoSuchTable
C19_NoRaceBetweenEnsureAndStatement ==
    [][\A r \in Reqs : C19_StatementStep(r)]_vars

\* C19 witness: a request has run init_table and not yet its statement while
\* a delete_table of the same table waits for the lock
C19_Witness ==
    \E r1, r2 \in Reqs :
        /\ req[r1].pc = "data" /\ req[r1].op \in NeedsTable
        /\ req[r2].pc = "waiting" /\ req[r2].op = "delete_table"
        /\ SameTable(req[r1].table, req[r2].table)

\* C20: a table that exists stops existing only in the step of a
\* delete_table whose name sanitizes to the table's identifier; init_table,
\* set_data, update_data, get_data and delete_data on any name, and
\* delete_table of a name with another sanitized form, leave it existing.
C20_TableStep(id) ==
    (id \in DOMAIN tables /\ id \notin DOMAIN tables')
    => \E r \in Reqs :
         /\ req[r].pc = "data" /\ req[r].op = "delete_table"
         /\ Sanitize(req[r].table) = id
         /\ req'[r].pc = "reply" /\ req'[r].out.ok
C20_OnlyDeleteTableDestroys ==
    [][\A id \in DOMAIN tables : C20_TableStep(id)]_vars

\* C20 witness: a delete_table removed its table and the table of another
\* sanitized name still holds its rows
C20_Witness ==
    /\ Answered("delete_table") /\ last.out.ok /\ last.old.exists
    /\ Sanitize(last.table) \notin DOMAIN tables
    /\ \E id \in DOMAIN tables : tables[id] # {}

\* C21: when init_table fails inside set_data, update_data or get_data, the
\* method returns at once with that error, its statement is not issued, the
\* error is the result the handler answers, and neither the failed
\* init_table nor the answer changes a table or a row.
C21_FailedEnsureStep(r) ==
    (req[r].pc = "init" /\ req'[r].pc # "init" /\ ~req'[r].out.ok)
    => /\ req[r].op \in NeedsTable
       /\ req'[r].pc = "reply"
       /\ tables' = tables
C21_AnswerStep(r) ==
    (req[r].pc = "reply" /\ req'[r].pc = "idle")
    => /\ tables' = tables
       /\ last'.out = req[r].out
C21_FailedEnsureTableStopsTheCall ==
    [][\A r \in Reqs : C21_FailedEnsureStep(r) /\ C21_AnswerStep(r)]_vars

\* C21 witness: init_table of a set_data failed on a table that did not
\* exist; the table still does not exist, which it would had the call gone
\* on, and the rows of another table are there
C21_Witness ==
    /\ Replying(1, "set_data")
    /\ req[1].out = Err(Unavailable)
    /\ Sanitize(req[1].table) \notin DOMAIN tables
    /\ \E id \in DOMAIN tables : tables[id] # {}

\* the rows of tabs other than the rows of key in table id, and the tables
\* of tabs other than id
RowsBeside(tabs, id, key) == {e \in Flatten(tabs) : e[1] # id \/ e[2] # key}
TablesBeside(tabs, id) == DOMAIN tabs \ {id}

\* C22: no step of a set_data, update_data or delete_data on (t, k) changes
\* a row of another key or of a table with another sanitized name, nor
\* whether such a table exists; no step of a get_data changes any row.
C22_CallStep(r) ==
    (InCall(r) /\ req'[r] # req[r])
    => LET id == Sanitize(req[r].table)
       IN  /\ req[r].op \in {"set_data", "update_data", "delete_data"}
                => /\ RowsBeside(tables', id, req[r].key)
                        = RowsBeside(tables, id, req[r].key)
                   /\ TablesBeside(tables', id) = TablesBeside(tables, id)
           /\ req[r].op = "get_data"
                => /\ Flatten(tables') = Flatten(tables)
                   /\ TablesBeside(tables', id) = TablesBeside(tables, id)
C22_OnlyTheKeysRecordChanges ==
    [][\A r \in Reqs : C22_CallStep(r)]_vars

\* C22 witness: an update_data has changed the row of its key while the
\* same table holds a row of another key and another table holds rows
C22_Witness ==
    /\ Replying(1, "update_data")
    /\ req[1].out.ok
    /\ req[1].old.rows # {}
    /\ req[1].old.rows # Stored(tables, req[1].table, req[1].key).rows
    /\ \E row \in tables[Sanitize(req[1].table)] : row[1] # req[1].key
    /\ \E id \in DOMAIN tables : id # Sanitize(req[1].table) /\ tables[id] # {}

====
